---- MODULE Spec2Model ----
(***************************************************************************)
(* Model of mlir/lib/Dialect/Bufferization/Transforms/                     *)
(* TensorCopyInsertion.cpp: insertTensorCopies(op, state), the walk over   *)
(* the operation tree that attaches the `escape` attribute to allocating   *)
(* operations and lets every bufferizable operation resolve its conflicts. *)
(*                                                                         *)
(* Operations are numbered 1..Len(parent); 1 is the root handed to         *)
(* insertTensorCopies.  The regions and blocks nested in an operation are  *)
(* flattened to one ordered list block[o], which is the order in which     *)
(* Operation::walk iterates over them; block[0] is the block that holds    *)
(* the root.                                                               *)
(***************************************************************************)
EXTENDS Integers, Sequences, FiniteSets, TLC

\* ------------------------------------------------------------ bounds
NumOps == 4
WalkResults == 1
MaxResults == 2
MaxInsert == 2
MaxPre == 1
MaxRuns == 2

VARIABLES
  parent,          \* parent[o]: the operation whose region holds o (0: none)
  block,           \* block[p]: the operations nested in p, in order
  part,            \* part[o]: dynCastBufferizableOp(o) yields an interface
  results,         \* results[o]: the results of o, in result order
  attr,            \* attr[o]: the `escape` attribute of o
  createDeallocs,  \* state.getOptions().createDeallocs
  stack,           \* the active walk() calls, outermost first
  walkResult,      \* the WalkResult of the walk so far
  insertionPoint,  \* the rewriter's insertion point (an operation, 0: unset)
  pc,              \* "walk" while insertTensorCopies runs, "done" after
  result,          \* the LogicalResult returned
  calls,           \* the resolveConflicts calls of this run, in order
  run,             \* number of the current run of insertTensorCopies
  startOps,        \* the operations in the tree when this run started
  prevAttr,        \* attr when this run started
  prevCalled,      \* the operations annotated by an earlier run
  visited,         \* the operations the callback of this run ran on, in order
  options,         \* bufferizeFunctionBoundaries and testAnalysisOnly
  analyses         \* the analyses run by insertTensorCopies(op, options)

vars == <<parent, block, part, results, attr, createDeallocs, stack,
          walkResult, insertionPoint, pc, result, calls, run, startOps,
          prevAttr, prevCalled, visited, options, analyses>>

\* ------------------------------------------------------------ data
NoAttr == [has |-> FALSE, val |-> <<>>]

BoolArrayAttr(v) == [has |-> TRUE, val |-> v]

\* A result: its type is a TensorType, the operation's
\* bufferizesToAllocation answer for it, and the analysis state's
\* isTensorYielded answer for it (line 67 asks it only for a tensor that
\* bufferizes to an allocation; it is FALSE where it is never asked).
ResultKinds ==
  {r \in [isTensor : BOOLEAN, alloc : BOOLEAN, yielded : BOOLEAN] :
     r.yielded => (r.isTensor /\ r.alloc)}

SeqsUpTo(S, n) == UNION {[1..k -> S] : k \in 0..n}

Ops == 1..Len(parent)

RECURSIVE SortedSeq(_)
SortedSeq(S) ==
  IF S = {} THEN <<>>
  ELSE LET m == CHOOSE x \in S : \A y \in S : x <= y
       IN <<m>> \o SortedSeq(S \ {m})

\* The trees on n operations: operation 1 is the root and every other
\* operation is nested in an earlier one, siblings in ascending order.
ParentFns(n) ==
  {p \in [1..n -> 0..n] : p[1] = 0 /\ \A i \in 2..n : p[i] \in 1..(i - 1)}

BlocksOf(p) ==
  [q \in 0..Len(p) |-> SortedSeq({i \in 1..Len(p) : p[i] = q})]

IndexOf(s, o) == CHOOSE i \in 1..Len(s) : s[i] = o

\* Operation::getNextNode within the block (0: o is the last one).
NextNode(b, par, o) ==
  LET s == b[par[o]]
      i == IndexOf(s, o)
  IN IF i < Len(s) THEN s[i + 1] ELSE 0

RECURSIVE IsNestedIn(_, _, _)
\* o is nested (at any depth) in an operation's regions: p is a proper ancestor.
IsNestedIn(par, o, p) ==
  IF par[o] = 0 THEN FALSE
  ELSE par[o] = p \/ IsNestedIn(par, par[o], p)

\* ------------------------------------------------------------ annotator
\* Faulty variant: the createDeallocs option is not consulted.
EscapeEntryYieldedOnly(r, cd) ==
  IF ~r.isTensor \/ ~r.alloc THEN FALSE
  ELSE r.yielded

\* Lines 60-68: the entry pushed for one result.
EscapeEntry(r, cd) ==
  IF ~r.isTensor \/ ~r.alloc THEN FALSE
  ELSE ~cd \/ r.yielded

\* Faulty variant: nothing is pushed for a result that does not qualify.
EscapeAttrValueAllocOnly(rs, cd) ==
  LET IsAlloc(r) == r.isTensor /\ r.alloc
      q == SelectSeq(rs, IsAlloc)
  IN [i \in 1..Len(q) |-> EscapeEntry(q[i], cd)]

\* Lines 57-69: escapeAttrValue after the loop over op->getOpResults().
EscapeAttrValue(rs, cd) == [i \in 1..Len(rs) |-> EscapeEntry(rs[i], cd)]

\* Faulty variant: any result at all counts as found.
FoundAnyResult(rs) == Len(rs) > 0

\* Lines 58-65: foundTensorResult after the loop.
FoundTensorResult(rs) == \E i \in 1..Len(rs) : rs[i].isTensor /\ rs[i].alloc

\* Faulty variant: the hasAttr test is missing.
AnnotateEscapeOverwrite(a, rs, cd) ==
  IF FoundTensorResult(rs)
  THEN BoolArrayAttr(EscapeAttrValue(rs, cd))
  ELSE a

\* Lines 56-72: the attribute of an operation after the annotation step.
AnnotateEscape(a, rs, cd) ==
  IF ~a.has
  THEN IF FoundTensorResult(rs)
       THEN BoolArrayAttr(EscapeAttrValue(rs, cd))
       ELSE a
  ELSE a

\* ------------------------------------------------------------ walk
\* Operation::walk as called on line 49, with no order argument: the nested
\* operations of an operation are walked before the callback runs on the
\* operation itself, each block through an early-increment range (the
\* successor is read before the operation is walked).  A frame is one active
\* walk(cur) call; nxt is the successor its block loop holds.
\* Faulty variant: the callback runs before the nested operations are walked,
\* and they are then left out.
EnterNoDescend(b, stk, o, n) == Append(stk, [cur |-> o, nxt |-> n])

RECURSIVE EnterFromLast(_, _, _, _)
\* Faulty variant: a block is entered at its last operation.
EnterFromLast(b, stk, o, n) ==
  LET s == Append(stk, [cur |-> o, nxt |-> n])
  IN IF b[o] = <<>> THEN s
     ELSE EnterFromLast(b, s, b[o][Len(b[o])], 0)

RECURSIVE EnterSkipNonPart(_, _, _, _)
\* Faulty variant: the regions of an operation that is not bufferizable are
\* not walked.
EnterSkipNonPart(b, stk, o, n) ==
  LET s == Append(stk, [cur |-> o, nxt |-> n])
  IN IF b[o] = <<>> \/ ~part[o] THEN s
     ELSE EnterSkipNonPart(b, s, b[o][1], IF Len(b[o]) > 1 THEN b[o][2] ELSE 0)

RECURSIVE Enter(_, _, _, _)
Enter(b, stk, o, n) ==
  LET s == Append(stk, [cur |-> o, nxt |-> n])
  IN IF b[o] = <<>> THEN s
     ELSE Enter(b, s, b[o][1], IF Len(b[o]) > 1 THEN b[o][2] ELSE 0)

\* Faulty variant: the block loop does not move on; the callback is run on
\* the same operation again.
AdvanceStay(b, par, stk) == stk

\* Faulty variant: the block loop does not hold the successor but looks, after
\* each callback, for the first operation of the block not yet visited.
AdvanceRescan(b, par, stk) ==
  LET top == stk[Len(stk)]
      rest == SubSeq(stk, 1, Len(stk) - 1)
      blk == b[par[top.cur]]
      todo == {j \in 1..Len(blk) :
                 /\ blk[j] # top.cur
                 /\ \A v \in 1..Len(visited) : visited[v] # blk[j]}
  IN IF todo # {}
     THEN Enter(b, rest, blk[CHOOSE j \in todo : \A m \in todo : j <= m], 0)
     ELSE rest

\* The callback on the innermost operation returned advance (or skip, which
\* a walk that has already visited the nested operations treats alike).
Advance(b, par, stk) ==
  LET top == stk[Len(stk)]
      rest == SubSeq(stk, 1, Len(stk) - 1)
  IN IF top.nxt # 0
     THEN Enter(b, rest, top.nxt, NextNode(b, par, top.nxt))
     ELSE rest

\* Faulty variant: a failed resolveConflicts does not stop the walk.
AfterResolveIgnoresFailure(ok, b, par, stk) == Advance(b, par, stk)

\* Lines 77-80: the walk after the callback on a bufferizable operation:
\* interrupt ends every active walk() call, advance goes on.
AfterResolve(ok, b, par, stk) ==
  IF ok THEN Advance(b, par, stk) ELSE <<>>

\* Faulty variant: the interruption is not reported.
LogicalResultSuccess(wr) == "success"

\* Line 83: failure(result.wasInterrupted()).
LogicalResult(wr) == IF wr = "interrupt" THEN "failure" ELSE "success"

\* Faulty variant: the point is after o.
InsertAfter(s, o, new) ==
  LET i == IndexOf(s, o)
  IN SubSeq(s, 1, i) \o new \o SubSeq(s, i + 1, Len(s))

\* Faulty variant: the created operations do not reach the block.
InsertBeforeLost(s, o, new) == s

\* OpBuilder::insert at the point setInsertionPoint(o) gave: before o.
InsertBefore(s, o, new) ==
  LET i == IndexOf(s, o)
  IN SubSeq(s, 1, i - 1) \o new \o SubSeq(s, i, Len(s))

Subtree(par, root) == {o \in 1..Len(par) : o = root \/ IsNestedIn(par, o, root)}

CalledOps == {calls[i].op : i \in 1..Len(calls)}

\* Faulty variant: every operation is taken to be bufferizable.
DynCastAlways(o) == TRUE

\* Faulty variant: an operation that carries the attribute is passed over.
DynCastUnlessAttr(o) == part[o] /\ ~attr[o].has

\* Line 50: dynCastBufferizableOp(op) yields an interface.
DynCastBufferizableOp(o) == part[o]

\* Faulty variant: the insertion point set for an earlier operation is kept.
SetInsertionPointStale(ip, o) == IF ip = 0 THEN o ELSE ip

\* Line 76: the insertion point after rewriter.setInsertionPoint(op).
SetInsertionPoint(ip, o) == o

\* What one resolveConflicts(rewriter, state) call can do: create n operations
\* at the rewriter's insertion point and report success or failure.  The
\* routine belongs to the operation, not to this file.
ResolveConflicts == [n : 0..MaxInsert, ok : BOOLEAN]

\* ------------------------------------------------------------ actions
\* Lines 50-52: the callback on an operation that is not bufferizable.
CallbackSkip ==
  /\ pc = "walk"
  /\ stack # <<>>
  /\ ~DynCastBufferizableOp(stack[Len(stack)].cur)
  /\ stack' = Advance(block, parent, stack)
  /\ visited' = Append(visited, stack[Len(stack)].cur)
  /\ UNCHANGED <<parent, block, part, results, attr, createDeallocs,
                 walkResult, insertionPoint, pc, result, calls, run,
                 startOps, prevAttr, prevCalled, options, analyses>>

\* Lines 50-80: the callback on a bufferizable operation.  resolveConflicts
\* is the operation's own routine: it creates n operations at the insertion
\* point, bufferizable ones of the kind of op, and reports success or failure.
CallbackResolve ==
  /\ pc = "walk"
  /\ stack # <<>>
  /\ LET op == stack[Len(stack)].cur
         old == Len(parent)
     IN /\ DynCastBufferizableOp(op)
        /\ \E rc \in ResolveConflicts :
             LET n == rc.n
                 ok == rc.ok
                 annotated == AnnotateEscape(attr[op], results[op],
                                             createDeallocs)
                 ip == SetInsertionPoint(insertionPoint, op)
                 created == [i \in 1..n |-> old + i]
                 par2 == parent \o [i \in 1..n |-> parent[ip]]
                 blk2 == [x \in 0..(old + n) |->
                            IF x > old THEN <<>>
                            ELSE IF x = parent[ip]
                                 THEN InsertBefore(block[x], ip, created)
                                 ELSE block[x]]
             IN /\ attr' = [attr EXCEPT ![op] = annotated]
                           \o [i \in 1..n |-> NoAttr]
                /\ insertionPoint' = ip
                /\ visited' = Append(visited, op)
                /\ parent' = par2
                /\ block' = blk2
                /\ part' = part \o [i \in 1..n |-> TRUE]
                /\ results' = results \o [i \in 1..n |-> results[op]]
                /\ calls' = Append(calls, [op |-> op, before |-> attr[op],
                                           seen |-> annotated, ip |-> ip,
                                           ok |-> ok, created |-> created])
                /\ stack' = AfterResolve(ok, blk2, par2, stack)
                /\ walkResult' = IF ok THEN walkResult ELSE "interrupt"
  /\ UNCHANGED <<createDeallocs, pc, result, run, startOps, prevAttr,
                 prevCalled, options, analyses>>

\* Line 83: return failure(result.wasInterrupted()).
Return ==
  /\ pc = "walk"
  /\ stack = <<>>
  /\ result' = LogicalResult(walkResult)
  /\ pc' = "done"
  /\ UNCHANGED <<parent, block, part, results, attr, createDeallocs, stack,
                 walkResult, insertionPoint, calls, run, startOps, prevAttr,
                 prevCalled, visited, options, analyses>>

\* Faulty variant: the local analysis is run whatever the options say.
AnalysisForOpOnly(opts) == "analyzeOp"

\* Lines 29-35: the analysis insertTensorCopies(op, options) runs.
AnalysisFor(opts) ==
  IF opts.bufferizeFunctionBoundaries THEN "analyzeModuleOp" ELSE "analyzeOp"

\* Faulty variant: testAnalysisOnly is not consulted.
AfterAnalysisAlwaysResolves(ok, opts) == IF ~ok THEN "failure" ELSE "walk"

\* Faulty variant: the result of the analysis is not consulted.
AfterAnalysisIgnoresFailure(ok, opts) ==
  IF opts.testAnalysisOnly THEN "success" ELSE "walk"

\* Lines 29-40: what insertTensorCopies(op, options) does once the analysis
\* has returned: return failure, return success, or go on to
\* insertTensorCopies(op, state) ("walk").
AfterAnalysis(ok, opts) ==
  IF ~ok THEN "failure"
  ELSE IF opts.testAnalysisOnly THEN "success"
  ELSE "walk"

\* Lines 23-40: insertTensorCopies(op, options) up to the call of the second
\* overload; the analysis reports success or failure.
Analyze ==
  /\ pc = "entry"
  /\ \E ok \in BOOLEAN :
       LET out == AfterAnalysis(ok, options)
       IN /\ analyses' = Append(analyses, [kind |-> AnalysisFor(options),
                                           ok |-> ok])
          /\ IF out = "walk"
             THEN /\ pc' = "walk"
                  /\ run' = run + 1
                  /\ stack' = Enter(block, <<>>, 1, 0)
                  /\ UNCHANGED result
             ELSE /\ pc' = "done"
                  /\ result' = out
                  /\ UNCHANGED <<run, stack>>
  /\ UNCHANGED <<parent, block, part, results, attr, createDeallocs,
                 walkResult, insertionPoint, calls, startOps, prevAttr,
                 prevCalled, visited, options>>

\* Lines 43-49: insertTensorCopies(op, state) is called again on the root,
\* with a fresh IRRewriter.
Rerun ==
  /\ pc = "done"
  /\ run < MaxRuns
  /\ pc' = "walk"
  /\ run' = run + 1
  /\ stack' = Enter(block, <<>>, 1, 0)
  /\ walkResult' = "advance"
  /\ insertionPoint' = 0
  /\ result' = "none"
  /\ calls' = <<>>
  /\ visited' = <<>>
  /\ startOps' = Subtree(parent, 1)
  /\ prevAttr' = attr
  /\ prevCalled' = prevCalled \cup CalledOps
  /\ UNCHANGED <<parent, block, part, results, attr, createDeallocs,
                 options, analyses>>

\* ------------------------------------------------------------ specifications
\* A tree of n operations whose operations have at most maxRes results,
\* before insertTensorCopies has done anything.
TreeInputs(n, maxRes) ==
  /\ parent \in ParentFns(n)
  /\ block = BlocksOf(parent)
  /\ part \in [1..n -> BOOLEAN]
  /\ \E s \in SeqsUpTo(ResultKinds, maxRes) :
       /\ results = [o \in 1..n |-> s]
       /\ attr \in {a \in [1..n -> {NoAttr} \cup
                                  {BoolArrayAttr(v) : v \in [1..Len(s) -> BOOLEAN]}] :
                      Cardinality({o \in 1..n : a[o].has}) <= MaxPre}
  /\ createDeallocs \in BOOLEAN
  /\ startOps = 1..n
  /\ prevAttr = attr
  /\ prevCalled = {}
  /\ calls = <<>>
  /\ visited = <<>>
  /\ analyses = <<>>
  /\ result = "none"
  /\ walkResult = "advance"
  /\ insertionPoint = 0

\* The options the second overload does not read.
NoOptions == [bufferizeFunctionBoundaries |-> FALSE, testAnalysisOnly |-> FALSE]

\* The state when insertTensorCopies(op, state) is entered (lines 43-49).
InitTree(n, maxRes) ==
  /\ TreeInputs(n, maxRes)
  /\ options = NoOptions
  /\ stack = Enter(block, <<>>, 1, 0)
  /\ pc = "walk"
  /\ run = 1

Init == InitTree(NumOps, WalkResults)

Next == CallbackSkip \/ CallbackResolve \/ Return

Spec == Init /\ [][Next]_vars

\* insertTensorCopies(op, state) is entered on an operation without nested
\* operations.
InitAnnot == InitTree(1, MaxResults)

NextAnnot == CallbackSkip \/ CallbackResolve \/ Return \/ Rerun

SpecAnnot == InitAnnot /\ [][NextAnnot]_vars

\* The state when insertTensorCopies(op, options) is entered on an operation
\* without nested operations (line 23).
InitOptions ==
  /\ TreeInputs(1, MaxResults)
  /\ options \in [bufferizeFunctionBoundaries : BOOLEAN,
                  testAnalysisOnly : BOOLEAN]
  /\ stack = <<>>
  /\ pc = "entry"
  /\ run = 0

NextOptions == Analyze \/ CallbackSkip \/ CallbackResolve \/ Return

SpecOptions == InitOptions /\ [][NextOptions]_vars

TypeOK ==
  /\ pc \in {"entry", "walk", "done"}
  /\ result \in {"none", "success", "failure"}
  /\ walkResult \in {"advance", "interrupt"}
  /\ Len(part) = Len(parent) /\ Len(attr) = Len(parent)
  /\ Len(results) = Len(parent)
  /\ DOMAIN block = 0..Len(parent)
  /\ \A o \in Ops : \E i \in 1..Len(block[parent[o]]) : block[parent[o]][i] = o

\* ------------------------------------------------------------ properties
\* A result that is tensor-typed and bufferizes to an allocation.
IsAllocTensor(r) == r.isTensor /\ r.alloc

\* The attribute of o when the current run started.
AttrAtStart(o) == IF o <= Len(prevAttr) THEN prevAttr[o] ELSE NoAttr

CallIdx == 1..Len(calls)

\* C1: after a bufferizable operation without an escape attribute has been
\* processed, the escape entry of each of its results that is tensor-typed
\* and bufferizes to an allocation is (NOT createDeallocs) OR isTensorYielded.
C1_EscapeValue ==
  \A i \in CallIdx :
    LET o == calls[i].op
    IN ~calls[i].before.has =>
         \A k \in 1..Len(results[o]) :
           IsAllocTensor(results[o][k]) =>
             /\ attr[o].has
             /\ k <= Len(attr[o].val)
             /\ attr[o].val[k] = (~createDeallocs \/ results[o][k].yielded)

\* C1 witness: with createDeallocs set, a processed operation has two
\* allocating tensor results, one yielded and one not.
C1_Witness ==
  /\ createDeallocs
  /\ \E i \in CallIdx :
       LET rs == results[calls[i].op]
       IN /\ ~calls[i].before.has
          /\ \E k, m \in 1..Len(rs) :
               /\ IsAllocTensor(rs[k]) /\ rs[k].yielded
               /\ IsAllocTensor(rs[m]) /\ ~rs[m].yielded

\* C2: an escape attribute that is present when the operation is visited is
\* left as it is, and an operation annotated in an earlier run has, after
\* being annotated again, the attribute the earlier run left.
C2_NoOverwrite ==
  /\ \A i \in CallIdx :
       calls[i].before.has => attr[calls[i].op] = calls[i].before
  /\ \A i \in CallIdx :
       calls[i].op \in prevCalled => attr[calls[i].op] = prevAttr[calls[i].op]

\* C2 witness: in a second run an operation annotated by the first run is
\* visited again while carrying an attribute the analysis would not compute.
C2_Witness ==
  /\ run = 2
  /\ \E i \in CallIdx :
       LET o == calls[i].op
       IN /\ o \in prevCalled
          /\ calls[i].before.has
          /\ FoundTensorResult(results[o])
          /\ attr[o].val # EscapeAttrValue(results[o], createDeallocs)

\* C3: a bufferizable operation that had no escape attribute when visited
\* carries one afterwards iff one of its results is tensor-typed and
\* bufferizes to an allocation.
C3_AttachedIffAlloc ==
  \A i \in CallIdx :
    LET o == calls[i].op
    IN ~calls[i].before.has =>
         (attr[o].has <=> \E k \in 1..Len(results[o]) :
                            IsAllocTensor(results[o][k]))

\* C3 witness: a processed operation with results, none of which qualifies,
\* is left without the attribute.
C3_Witness ==
  \E i \in CallIdx :
    LET o == calls[i].op
    IN /\ ~calls[i].before.has
       /\ Len(results[o]) > 0
       /\ \A k \in 1..Len(results[o]) : ~IsAllocTensor(results[o][k])
       /\ ~attr[o].has

\* C4: an attribute the annotator attached has one boolean per result, and
\* FALSE at every result that is not tensor-typed or does not bufferize to an
\* allocation.
C4_OnePerResult ==
  \A i \in CallIdx :
    LET o == calls[i].op
    IN (~calls[i].before.has /\ attr[o].has) =>
         /\ Len(attr[o].val) = Len(results[o])
         /\ \A k \in 1..Len(results[o]) :
              ~IsAllocTensor(results[o][k]) => attr[o].val[k] = FALSE

\* C4 witness: an attribute was attached to an operation whose first result
\* does not qualify and whose second does.
C4_Witness ==
  \E i \in CallIdx :
    LET o == calls[i].op
    IN /\ ~calls[i].before.has /\ attr[o].has
       /\ Len(results[o]) = 2
       /\ ~IsAllocTensor(results[o][1])
       /\ attr[o].val = <<FALSE, TRUE>>

\* The position of the call on o in this run (o has been called).
CallOf(o) == CHOOSE i \in CallIdx : calls[i].op = o

\* X is a bufferizable operation of the tree the run started on.
Participates(X) == X \in startOps /\ part[X]

\* A stands before B in the block that holds both.
Precedes(A, B) ==
  /\ A # B
  /\ parent[A] = parent[B]
  /\ IndexOf(block[parent[A]], A) < IndexOf(block[parent[B]], B)

\* C5 as stated: when a nested bufferizable operation is called, every
\* bufferizable operation it is nested in has been called before.
C5_PreOrder ==
  \A i \in CallIdx :
    \A P \in startOps :
      (part[P] /\ IsNestedIn(parent, calls[i].op, P)) =>
        \E j \in 1..(i - 1) : calls[j].op = P

\* C5, amended: the traversal is post-order: when a bufferizable operation P
\* is annotated and resolved, every bufferizable operation that was nested in
\* P when the walk started has been annotated and resolved before.
C5_PostOrder ==
  \A i \in CallIdx :
    \A C \in startOps :
      (part[C] /\ IsNestedIn(parent, C, calls[i].op)) =>
        \E j \in 1..(i - 1) : calls[j].op = C

\* C5 witness: an operation was called after two operations nested in it at
\* different depths.
C5_Witness ==
  \E i, j, k \in CallIdx :
    /\ i < j /\ j < k
    /\ parent[calls[i].op] = calls[j].op
    /\ parent[calls[j].op] = calls[k].op

\* C6: when B is called, every bufferizable operation A that stands before B
\* in B's block, and every bufferizable operation nested in such an A, has
\* been called before.
C6_LeftToRight ==
  \A j \in CallIdx :
    \A A \in startOps :
      Precedes(A, calls[j].op) =>
        \A X \in startOps :
          (part[X] /\ (X = A \/ IsNestedIn(parent, X, A))) =>
            \E i \in 1..(j - 1) : calls[i].op = X

\* C6 witness: A, an operation nested in A, and A's right neighbour B have all
\* been called, and an operation was created in between.
C6_Witness ==
  \E i, j, k \in CallIdx :
    /\ i < j /\ j < k
    /\ parent[calls[i].op] = calls[j].op
    /\ Precedes(calls[j].op, calls[k].op)
    /\ Len(calls[j].created) > 0

\* C7: an operation that is not bufferizable is never annotated or resolved,
\* and once the walk has returned success every bufferizable operation
\* nested in it, at any depth, has been annotated and resolved.
C7_SkipButDescend ==
  /\ \A o \in Ops : ~part[o] => (o \notin CalledOps /\ attr[o] = AttrAtStart(o))
  /\ result = "success" =>
       \A N \in startOps : \A X \in startOps :
         (~part[N] /\ part[X] /\ IsNestedIn(parent, X, N)) =>
           /\ X \in CalledOps
           /\ (~AttrAtStart(X).has /\ \E k \in 1..Len(results[X]) :
                                         IsAllocTensor(results[X][k]))
                => attr[X].has

\* C7 witness: the walk succeeded on a tree whose root and the operation in
\* it are not bufferizable while an operation two levels down is, and that
\* one got its attribute.
C7_Witness ==
  /\ result = "success"
  /\ \E N, M, X \in startOps :
       /\ ~part[N] /\ ~part[M] /\ part[X]
       /\ parent[M] = N /\ parent[X] = M
       /\ ~AttrAtStart(X).has /\ attr[X].has
       /\ ~attr[N].has /\ ~attr[M].has

\* C8: nothing is called after a call that failed, an operation that was not
\* called keeps the attribute it had, and the run then returns failure.
C8_FailFast ==
  /\ \A i \in CallIdx : ~calls[i].ok => i = Len(calls)
  /\ \A o \in Ops : o \notin CalledOps => attr[o] = AttrAtStart(o)
  /\ (pc = "done" /\ \E i \in CallIdx : ~calls[i].ok) => result = "failure"

\* C8 witness: the run returned after a failed call while a bufferizable
\* operation with an allocating result was still to be visited.
C8_Witness ==
  /\ pc = "done"
  /\ \E i \in CallIdx : ~calls[i].ok
  /\ \E X \in startOps :
       /\ part[X] /\ X \notin CalledOps
       /\ ~attr[X].has
       /\ \E k \in 1..Len(results[X]) : IsAllocTensor(results[X][k])

\* C9: the run returns success iff no resolveConflicts call failed, and on
\* success every bufferizable operation of the tree the run started on has
\* been called exactly once.
C9_SuccessIffNoFailure ==
  pc = "done" =>
    /\ result \in {"success", "failure"}
    /\ (result = "success") <=> (\A i \in CallIdx : calls[i].ok)
    /\ result = "success" =>
         \A X \in startOps :
           part[X] => Cardinality({i \in CallIdx : calls[i].op = X}) = 1

\* C9 witness: a run returned success after calling three operations, one of
\* which created an operation.
C9_Witness ==
  /\ pc = "done" /\ result = "success"
  /\ Len(calls) >= 3
  /\ \E i \in CallIdx : Len(calls[i].created) > 0

\* An operation is in the tree: it stands in the block of its parent.
InTree(o) == \E i \in 1..Len(block[parent[o]]) : block[parent[o]][i] = o

\* C10: when the run has returned failure, every operation created by a call
\* is in the tree, and every called operation, the failing one included,
\* that had no attribute and has an allocating tensor result carries the
\* attribute the annotator gave it.
C10_NoRollback ==
  (pc = "done" /\ result = "failure") =>
    \A i \in CallIdx :
      LET o == calls[i].op
      IN /\ \A k \in 1..Len(calls[i].created) : InTree(calls[i].created[k])
         /\ (~calls[i].before.has /\ \E k \in 1..Len(results[o]) :
                                       IsAllocTensor(results[o][k]))
              => /\ attr[o].has
                 /\ Len(attr[o].val) = Len(results[o])

\* C10 witness: a run returned failure; an earlier call had created an
\* operation and annotated its operation, and the failing call had annotated
\* its operation too and created an operation before it failed.
C10_Witness ==
  /\ pc = "done" /\ result = "failure"
  /\ Len(calls) >= 2
  /\ \A i \in CallIdx :
       /\ ~calls[i].before.has /\ attr[calls[i].op].has
       /\ Len(calls[i].created) > 0

\* The tree is as it was when the run started: no operation was created, no
\* attribute written, no block changed.
TreeUntouched ==
  /\ Len(parent) = Cardinality(startOps)
  /\ attr = prevAttr
  /\ block = BlocksOf(parent)

\* C11: on a tree without bufferizable operations the callback never gets
\* past line 52 (no bufferizesToAllocation, isTensorYielded or
\* resolveConflicts call, no insertion point set), the tree stays as it was
\* and the run returns success.
C11_NoOpWithoutBufferizable ==
  (\A o \in startOps : ~part[o]) =>
    /\ calls = <<>>
    /\ insertionPoint = 0
    /\ TreeUntouched
    /\ pc = "done" => result = "success"

\* C11 witness: the run has returned after visiting every operation of a
\* tree whose operations have an allocating tensor result and none of which
\* is bufferizable.
C11_Witness ==
  /\ pc = "done" /\ result = "success"
  /\ \A o \in startOps : ~part[o]
  /\ Len(visited) = Cardinality(startOps)
  /\ \E k \in 1..Len(results[1]) : IsAllocTensor(results[1][k])

\* C12: with testAnalysisOnly set the second overload is never entered: no
\* callback runs, the tree stays as it was, and once the one analysis has
\* succeeded the call returns success.
C12_AnalysisOnly ==
  options.testAnalysisOnly =>
    /\ calls = <<>> /\ visited = <<>> /\ run = 0
    /\ TreeUntouched
    /\ pc = "done" =>
         /\ Len(analyses) = 1
         /\ analyses[1].ok => result = "success"

\* C12 witness: the call returned success in analysis-only mode on a
\* bufferizable operation that has an allocating tensor result and no
\* attribute.
C12_Witness ==
  /\ options.testAnalysisOnly
  /\ pc = "done" /\ result = "success"
  /\ part[1] /\ ~attr[1].has
  /\ \E k \in 1..Len(results[1]) : IsAllocTensor(results[1][k])

\* C13: once the analysis has failed the call has returned failure, and the
\* second overload was never entered: no callback ran and the tree is as it
\* was, whatever testAnalysisOnly is.
C13_AnalysisFailure ==
  (\E i \in 1..Len(analyses) : ~analyses[i].ok) =>
    /\ pc = "done" /\ result = "failure"
    /\ calls = <<>> /\ visited = <<>> /\ run = 0
    /\ TreeUntouched

\* C13 witness: the analysis failed with testAnalysisOnly unset on a
\* bufferizable operation that has an allocating tensor result.
C13_Witness ==
  /\ Len(analyses) = 1 /\ ~analyses[1].ok
  /\ ~options.testAnalysisOnly
  /\ part[1] /\ ~attr[1].has
  /\ \E k \in 1..Len(results[1]) : IsAllocTensor(results[1][k])

\* C14: nothing is resolved before the analysis; past the entry exactly one
\* analysis has run, the module analysis iff bufferizeFunctionBoundaries;
\* when it succeeded and testAnalysisOnly is unset the second overload has
\* been entered exactly once and its result is what the call returns.
C14_OneAnalysisThenDriver ==
  /\ pc = "entry" => (analyses = <<>> /\ calls = <<>> /\ visited = <<>> /\ run = 0)
  /\ pc # "entry" =>
       /\ Len(analyses) = 1
       /\ analyses[1].kind = "analyzeModuleOp" <=> options.bufferizeFunctionBoundaries
       /\ analyses[1].kind = "analyzeOp" <=> ~options.bufferizeFunctionBoundaries
       /\ (analyses[1].ok /\ ~options.testAnalysisOnly) =>
            /\ run = 1
            /\ pc = "done" =>
                 result = IF \E i \in CallIdx : ~calls[i].ok
                          THEN "failure" ELSE "success"

\* C14 witness: with bufferizeFunctionBoundaries set the module analysis
\* succeeded, the second overload ran and failed, and the call returned
\* failure.
C14_Witness ==
  /\ options.bufferizeFunctionBoundaries /\ ~options.testAnalysisOnly
  /\ pc = "done" /\ run = 1
  /\ analyses = <<[kind |-> "analyzeModuleOp", ok |-> TRUE]>>
  /\ Len(calls) = 1 /\ ~calls[1].ok
  /\ result = "failure"

VisitedOps == {visited[j] : j \in 1..Len(visited)}

\* The operations of block p that were in the tree when the run started.
Original(p) ==
  LET InStart(o) == o \in startOps
  IN SelectSeq(block[p], InStart)

\* C15: the operations a resolveConflicts call created stand in the block of
\* the operation resolved, in creation order, one after the other, the last
\* one right before that operation; and the operations that were in the
\* tree when the run started are all still there, in the order they had.
C15_OrderPreserved ==
  /\ \A i \in CallIdx :
       LET o == calls[i].op
           c == calls[i].created
           b == block[parent[o]]
       IN \A k \in 1..Len(c) :
            /\ parent[c[k]] = parent[o]
            /\ InTree(c[k])
            /\ IndexOf(b, c[k]) = IndexOf(b, o) - (Len(c) - k + 1)
  /\ \A p \in 0..Len(parent) :
       Original(p) = SortedSeq({o \in startOps : parent[o] = p})

\* C15 witness: a call created two operations before an operation that has a
\* left neighbour, and its right neighbour was resolved afterwards, creating
\* operations too.
C15_Witness ==
  \E i, j \in CallIdx :
    /\ i < j
    /\ Len(calls[i].created) = 2 /\ Len(calls[j].created) = 2
    /\ Precedes(calls[i].op, calls[j].op)
    /\ \E A \in startOps : Precedes(A, calls[i].op)

\* C16: when resolveConflicts of an operation is invoked, the insertion
\* point is that operation, and the escape attribute is as the annotator
\* leaves it: the one it had if it had one, a vector with one entry per
\* result if a result qualifies, none otherwise.
C16_AnnotateThenPointThenResolve ==
  \A i \in CallIdx :
    LET o == calls[i].op
        qualifies == \E k \in 1..Len(results[o]) : IsAllocTensor(results[o][k])
    IN /\ calls[i].ip = o
       /\ calls[i].before.has => calls[i].seen = calls[i].before
       /\ (~calls[i].before.has /\ qualifies) =>
            (calls[i].seen.has /\ Len(calls[i].seen.val) = Len(results[o]))
       /\ (~calls[i].before.has /\ ~qualifies) => ~calls[i].seen.has
       /\ attr[o] = calls[i].seen

\* C16 witness: a second operation was resolved, after one that created
\* operations, and had been given its attribute by the annotator.
C16_Witness ==
  \E i \in CallIdx :
    /\ i > 1
    /\ Len(calls[i - 1].created) > 0
    /\ calls[i - 1].ip # calls[i].ip
    /\ ~calls[i].before.has /\ calls[i].seen.has

\* C17: an operation created by a resolveConflicts call is in the tree from
\* then on, and the walk that created it never runs the callback on it: it
\* is neither annotated nor resolved.
C17_CreatedNotVisited ==
  \A i \in CallIdx :
    \A k \in 1..Len(calls[i].created) :
      LET c == calls[i].created[k]
      IN /\ InTree(c)
         /\ c \notin VisitedOps
         /\ c \notin CalledOps
         /\ attr[c] = NoAttr

\* C17 witness: the walk returned success; an operation created on the way is
\* bufferizable and has an allocating tensor result, and an operation to the
\* right of it was resolved after it had been created.
C17_Witness ==
  /\ pc = "done" /\ result = "success"
  /\ \E i, j \in CallIdx :
       /\ i < j
       /\ Precedes(calls[i].op, calls[j].op)
       /\ Len(calls[i].created) > 0
       /\ LET c == calls[i].created[1]
          IN /\ part[c]
             /\ \E k \in 1..Len(results[c]) : IsAllocTensor(results[c][k])

\* C18: a bufferizable operation that carried the attribute when the
\* callback ran on it was resolved exactly once, with the insertion point at
\* it, and if that call failed it was the last one and the run returns
\* failure.
C18_AttrDoesNotSuppressResolve ==
  /\ \A j \in 1..Len(visited) :
       LET o == visited[j]
       IN (part[o] /\ AttrAtStart(o).has) =>
            Cardinality({i \in CallIdx : calls[i].op = o}) = 1
  /\ \A i \in CallIdx :
       calls[i].before.has =>
         /\ calls[i].ip = calls[i].op
         /\ ~calls[i].ok =>
              /\ i = Len(calls)
              /\ stack = <<>>
              /\ pc = "done" => result = "failure"

\* C18 witness: the run returned failure because the call on an operation
\* with a supplied attribute failed, while a bufferizable operation was
\* still to be visited.
C18_Witness ==
  /\ pc = "done" /\ result = "failure"
  /\ calls[Len(calls)].before.has /\ ~calls[Len(calls)].ok
  /\ \E X \in startOps : part[X] /\ X \notin VisitedOps

\* The walk is one sequential loop: a step that can be taken is taken.
SpecFair == Init /\ [][Next]_vars /\ WF_vars(Next)

NoRevisit ==
  \A i, j \in 1..Len(visited) : visited[i] = visited[j] => i = j

\* C19: the run returns, and until then the callback has run at most once
\* on every operation.
C19_Terminates == <>(pc = "done") /\ []NoRevisit

\* C19 witness: the run has returned success after every call created as
\* many operations as a call may, all of them before the operation resolved.
C19_Witness ==
  /\ pc = "done" /\ result = "success"
  /\ Len(calls) > 1
  /\ \A i \in CallIdx : Len(calls[i].created) = MaxInsert

====
